---- MODULE Spec2Model ----
(***************************************************************************)
(* Rich-text rendering engine (richTextResolver), its entry point          *)
(* (richTextRender) and the asynchronous placeholder protocol (renderHTML).*)
(*                                                                         *)
(* A JavaScript string is modelled as a sequence of chunks (TLA+ strings); *)
(* the string it stands for is the concatenation of its chunks.  Template  *)
(* literals that build one value (`mailto:${href}`) concatenate strings    *)
(* with \o; concatenation of markup concatenates chunk sequences.          *)
(*                                                                         *)
(* A JavaScript object is a TLA+ record: `'k' in o` is k \in DOMAIN o.     *)
(* A primitive (null, a string, a number) is a record [prim |-> kind].     *)
(* An attribute object is a sequence of <<key, value>> pairs in insertion  *)
(* order; the value Undef stands for `undefined`.                          *)
(*                                                                         *)
(* JavaScript runs each callback to completion: the synchronous part of    *)
(* renderHTML between two awaits is one action.                            *)
(***************************************************************************)
EXTENDS Naturals, Sequences, FiniteSets, TLC

VARIABLES
    container,          \* part_002:46  0 = null, n > 0 = the n-th container created
    asyncReplacements,  \* part_002:47  the module-level list of promise ids
    promises,           \* promise id -> the promise pushed by componentResolver
    calls,              \* the renderHTML invocations, in call order
    nextId,             \* how many UUIDs crypto.randomUUID() has handed out
    created,            \* how many containers AstroContainer.create() has built
    engine,             \* the options of the richTextResolver under SpecRender
    keyCounters,        \* part_002:68  the engine's keyCounters Map
    renders,            \* how many render() calls the engine has served
    last                \* the last render() call: its input and its outcome

vars == <<container, asyncReplacements, promises, calls, nextId, created,
          engine, keyCounters, renders, last>>

asyncVars == <<container, asyncReplacements, promises, calls, nextId, created>>
renderVars == <<engine, keyCounters, renders, last>>

-----------------------------------------------------------------------------
(* Bounds of the model *)

MaxCalls == 2
MaxRenders == 2
MaxMarks == 2
MaxChildren == 2

-----------------------------------------------------------------------------
(* JavaScript values *)

Undef == "undefined"
Null == 0

Truthy(v) == v # Undef /\ v # ""

IsObject(node) == "prim" \notin DOMAIN node

\* !node for a node of the model: null, undefined, 0 and '' are falsy
Falsy(node) == ~IsObject(node) /\ node.prim \in {"null", "undefined", "zero", "empty"}

Has(node, k) == IsObject(node) /\ k \in DOMAIN node

\* Array.isArray(node): an array is the record [isArray, items]
IsArray(node) == Has(node, "isArray")

\* {...node, k: v}
With(node, k, v) == [f \in DOMAIN node \cup {k} |-> IF f = k THEN v ELSE node[f]]

\* const { k, ...rest } = node
Omit(node, k) == [f \in DOMAIN node \ {k} |-> node[f]]

Digits == <<"0", "1", "2", "3", "4", "5", "6", "7", "8", "9">>

RECURSIVE NatStr(_)
NatStr(n) == IF n < 10 THEN Digits[n + 1] ELSE NatStr(n \div 10) \o Digits[(n % 10) + 1]

\* const x = v; F(x): v is evaluated once
Let(v, F(_)) == CHOOSE y \in {F(x) : x \in {v}} : TRUE

RECURSIVE Flatten(_)
Flatten(ss) == IF ss = <<>> THEN <<>> ELSE Head(ss) \o Flatten(Tail(ss))

-----------------------------------------------------------------------------
(* Attribute objects *)

AttrGet(attrs, k) ==
    LET I == {i \in 1..Len(attrs) : attrs[i][1] = k}
    IN  IF I = {} THEN Undef ELSE attrs[CHOOSE i \in I : TRUE][2]

AttrOmit(attrs, keys) == SelectSeq(attrs, LAMBDA p : p[1] \notin keys)

\* attrs.k = v, and {...attrs, k: v}: an existing key keeps its place
AttrSet(attrs, k, v) ==
    IF \E i \in 1..Len(attrs) : attrs[i][1] = k
    THEN [i \in 1..Len(attrs) |-> IF attrs[i][1] = k THEN <<k, v>> ELSE attrs[i]]
    ELSE Append(attrs, <<k, v>>)

cleanObject(attrs) == SelectSeq(attrs, LAMBDA p : p[2] # Undef)

\* a nested object (the story of a link) prints as [object Object]
AttrText(p) == IF p[1] = "story" THEN "[object Object]" ELSE p[2]

RECURSIVE attrsToString(_)
attrsToString(attrs) ==
    IF attrs = <<>> THEN ""
    ELSE LET one == attrs[1][1] \o "=\"" \o AttrText(attrs[1]) \o "\""
         IN  IF Len(attrs) = 1 THEN one ELSE one \o " " \o attrsToString(Tail(attrs))

RECURSIVE attrsToStyle(_)
attrsToStyle(attrs) ==
    IF attrs = <<>> THEN ""
    ELSE LET one == attrs[1][1] \o ": " \o attrs[1][2]
         IN  IF Len(attrs) = 1 THEN one ELSE one \o "; " \o attrsToStyle(Tail(attrs))

SELF_CLOSING_TAGS ==
    {"area", "base", "br", "col", "embed", "hr", "img", "input", "link", "meta",
     "param", "source", "track", "wbr"}

\* the texts of the model's documents, and what escapeHtml makes of them
escapeHtml(text) ==
    CASE text = "a<b" -> "a&lt;b"
      [] text = "R&D" -> "R&amp;D"
      [] OTHER -> text

EndsWithSemicolon(style) == style \in {"color: red;"}

-----------------------------------------------------------------------------
(* The default render function *)

defaultRenderFn(tag, attrs, content) ==
    LET attrsString == attrsToString(attrs)
        tagString == IF attrsString # "" THEN tag \o " " \o attrsString ELSE tag
    IN  IF tag = "" THEN content
        ELSE IF tag \in SELF_CLOSING_TAGS THEN << "<" \o tagString \o ">" >>
        ELSE << "<" \o tagString \o ">" >> \o content \o << "</" \o tag \o ">" >>

-----------------------------------------------------------------------------
(* Node types and resolvers *)

DOCUMENT == "doc"
TEXT == "text"
COMPONENT == "blok"

\* a resolver function: which function of the source it is, and the tag (and
\* the styled flag) nodeResolver and markResolver were called with
Res(kind, tag, styled) == [kind |-> kind, tag |-> tag, styled |-> styled]

NoResolver == Res("undefined", "", FALSE)

\* new Map(entries).get(key): the last entry of a key wins
MapGet(entries, key) ==
    LET I == {i \in 1..Len(entries) : entries[i][1] = key}
    IN  IF I = {} THEN NoResolver
        ELSE entries[CHOOSE i \in I : \A j \in I : j <= i][2]

MapKeys(entries) == {entries[i][1] : i \in 1..Len(entries)}

originalResolvers ==
    << <<DOCUMENT, Res("node", "", FALSE)>>,
       <<"heading", Res("heading", "", FALSE)>>,
       <<"paragraph", Res("node", "p", FALSE)>>,
       <<"bullet_list", Res("node", "ul", FALSE)>>,
       <<"ordered_list", Res("node", "ol", FALSE)>>,
       <<"list_item", Res("node", "li", FALSE)>>,
       <<"image", Res("image", "", FALSE)>>,
       <<"emoji", Res("emoji", "", FALSE)>>,
       <<"code_block", Res("codeBlock", "", FALSE)>>,
       <<"horizontal_rule", Res("node", "hr", FALSE)>>,
       <<"hard_break", Res("node", "br", FALSE)>>,
       <<"blockquote", Res("node", "blockquote", FALSE)>>,
       <<COMPONENT, Res("component", "", FALSE)>>,
       <<TEXT, Res("text", "", FALSE)>>,
       <<"link", Res("link", "", FALSE)>>,
       <<"anchor", Res("link", "", FALSE)>>,
       <<"styled", Res("mark", "span", TRUE)>>,
       <<"bold", Res("mark", "strong", FALSE)>>,
       <<"textStyle", Res("mark", "span", TRUE)>>,
       <<"italic", Res("mark", "em", FALSE)>>,
       <<"underline", Res("mark", "u", FALSE)>>,
       <<"strike", Res("mark", "s", FALSE)>>,
       <<"code", Res("mark", "code", FALSE)>>,
       <<"superscript", Res("mark", "sup", FALSE)>>,
       <<"subscript", Res("mark", "sub", FALSE)>>,
       <<"highlight", Res("mark", "mark", FALSE)>>,
       <<"table", Res("table", "", FALSE)>>,
       <<"tableRow", Res("tableRow", "", FALSE)>>,
       <<"tableCell", Res("tableCell", "", FALSE)>>,
       <<"tableHeader", Res("tableHeader", "", FALSE)>> >>

\* [...originalResolvers, ...Object.entries(resolvers)]
MergeEntriesCallerLoses(resolvers) == resolvers \o originalResolvers

mergedResolvers(resolvers) == originalResolvers \o resolvers

-----------------------------------------------------------------------------
(* The entry point richTextRender: its default resolvers and its options *)

defaultResolvers ==
    << <<"highlight", Res("defaultHighlight", "", FALSE)>>,
       <<"link", Res("defaultLink", "", FALSE)>> >>

\* Object.entries(defaultResolvers).filter(([key]) => !except.includes(key))
FilterKeepsExcluded(except) == defaultResolvers

filteredResolvers(except) == SelectSeq(defaultResolvers, LAMBDA e : e[1] \notin except)

\* { ...filteredResolvers, ...resolvers }: a key of both keeps its place and
\* takes the caller's value
RECURSIVE Spread(_, _)
Spread(base, over) ==
    IF over = <<>> THEN base
    ELSE Spread(AttrSet(base, over[1][1], over[1][2]), Tail(over))

EntryResolvers(except, resolvers) == Spread(filteredResolvers(except), resolvers)

-----------------------------------------------------------------------------
(* The walk.  Every function of the walk takes the walk's state st and returns *)
(* [v |-> its value, arr |-> whether the value is an array, st |-> the state   *)
(* it leaves]:                                                                 *)
(*   st.kc      keyCounters                                                    *)
(*   st.keys    the keys stamped so far by this walk, in order                 *)
(*   st.tasks   the promises pushed onto asyncReplacements by this walk        *)
(*   st.nid     the UUIDs handed out                                           *)
(*   st.thrown  an exception is propagating                                    *)

R(v, st) == [v |-> v, arr |-> FALSE, st |-> st]

Throw(st) == R(<<>>, [st EXCEPT !.thrown = TRUE])

KcGet(kc, tag) == IF tag \in DOMAIN kc THEN kc[tag] ELSE 0

KcSet(kc, tag, n) == [t \in DOMAIN kc \cup {tag} |-> IF t = tag THEN n ELSE kc[t]]

Attrs(node) == IF Has(node, "attrs") THEN node.attrs ELSE <<>>

Children(node) == IF Has(node, "children") THEN node.children ELSE <<>>

TextOf(node) == IF Has(node, "text") THEN node.text ELSE <<Undef>>

\* keyCounters.get(tag) || 0; keyCounters.set(tag, count + 1); key = `${tag}-${count}`
Stamp(st, tag) ==
    [st EXCEPT !.kc = KcSet(@, tag, KcGet(st.kc, tag) + 1),
               !.keys = Append(@, <<tag, KcGet(st.kc, tag)>>)]

KeyOf(tag, st) == tag \o "-" \o NatStr(KcGet(st.kc, tag))

\* context.render
contextRenderFn(E, tag, attrs, children, st) ==
    IF E.keyed /\ tag # ""
    THEN R(defaultRenderFn(tag, AttrSet(attrs, "key", KeyOf(tag, st)), children),
           Stamp(st, tag))
    ELSE R(defaultRenderFn(tag, attrs, children), st)

processAttributes(attrs) ==
    LET textAlign == AttrGet(attrs, "textAlign")
        existingStyle == AttrGet(attrs, "style")
        rest == AttrOmit(attrs, {"textAlign", "class", "id", "style"})
        s1 == IF Truthy(existingStyle)
              THEN << IF EndsWithSemicolon(existingStyle) THEN existingStyle
                      ELSE existingStyle \o ";" >>
              ELSE <<>>
        s2 == IF Truthy(textAlign) THEN << "text-align: " \o textAlign \o ";" >> ELSE <<>>
        styles == s1 \o s2
        style == IF Len(styles) = 2 THEN styles[1] \o " " \o styles[2]
                 ELSE IF Len(styles) = 1 THEN styles[1] ELSE Undef
    IN  cleanObject(rest \o << <<"class", AttrGet(attrs, "class")>>,
                               <<"id", AttrGet(attrs, "id")>> >>
                         \o (IF Len(styles) > 0 THEN << <<"style", style>> >> ELSE <<>>))

nodeResolver(E, tag, node, st) ==
    contextRenderFn(E, tag, processAttributes(Attrs(node)), Children(node), st)

headingResolver(E, node, st) ==
    contextRenderFn(E, "h" \o AttrGet(Attrs(node), "level"),
                    processAttributes(AttrOmit(Attrs(node), {"level"})), Children(node), st)

markResolver(E, tag, styled, node, st) ==
    LET attrs == Attrs(node)
        styleAttrs == AttrOmit(attrs, {"class", "id"})
        style == IF attrsToStyle(styleAttrs) # "" THEN attrsToStyle(styleAttrs) ELSE Undef
        attributes == IF styled
                      THEN << <<"class", AttrGet(attrs, "class")>>,
                              <<"id", AttrGet(attrs, "id")>>,
                              <<"style", style>> >>
                      ELSE attrs
    IN  contextRenderFn(E, tag, cleanObject(attributes), TextOf(node), st)

linkFinalHref(attrs) ==
    LET linktype == AttrGet(attrs, "linktype")
        href == AttrGet(attrs, "href")
        anchor == AttrGet(attrs, "anchor")
    IN  CASE linktype \in {"asset", "url"} -> href
          [] linktype = "email" -> "mailto:" \o href
          [] linktype = "story" -> IF Truthy(anchor) THEN href \o "#" \o anchor ELSE href
          [] OTHER -> href

linkResolver(E, node, st) ==
    LET rest == AttrOmit(Attrs(node), {"linktype", "href", "anchor"})
        finalHref == linkFinalHref(Attrs(node))
        attributes == IF Truthy(finalHref) THEN AttrSet(rest, "href", finalHref) ELSE rest
    IN  contextRenderFn(E, "a", attributes, TextOf(node), st)

\* richTextRender.ts: the default resolvers build their markup themselves
defaultHighlight(node, st) ==
    R(<< "<span style=\"background-color:" \o AttrGet(Attrs(node), "color") \o ";\">" >>
      \o TextOf(node) \o << "</span>" >>, st)

STORYBLOK_ASSET == "https://a.storyblok.com/f/1.png"

\* useHost: import.meta.env.NFON_IMAGE_HOST === 'yes'
transformAsset(useHost, src) ==
    IF ~Truthy(src) THEN src
    ELSE IF useHost /\ src = STORYBLOK_ASSET THEN "/web-assets/f/1.png"
    ELSE src

defaultLinkHref(attrs) ==
    LET href == AttrGet(attrs, "href")
        anchor == AttrGet(attrs, "anchor")
        slug == AttrGet(attrs, "story")
        h0 == IF Truthy(href) THEN href ELSE "#"
        h1 == IF AttrGet(attrs, "linktype") = "story" /\ Truthy(slug) THEN "/" \o slug ELSE h0
    IN  IF Truthy(anchor) THEN h1 \o "#" \o anchor ELSE h1

defaultLink(E, node, st) ==
    LET target == AttrGet(Attrs(node), "target")
    IN  R(<< "<a href=\"" \o transformAsset(E.assetsHost, defaultLinkHref(Attrs(node)))
             \o "\" target=\""
             \o (IF Truthy(target) THEN target ELSE "_self")
             \o "\" class=\"rich-text-link\">" >>
          \o TextOf(node) \o << "</a>" >>, st)

\* a resolver of the caller's: it wraps the node's text in an element of its own
userResolver(tag, node, st) ==
    R(<< "<" \o tag \o ">" >> \o TextOf(node) \o << "</" \o tag \o ">" >>, st)

Placeholder(id) == "<!--ASYNC-" \o id \o "-->"

Uuid(n) == "uuid-" \o NatStr(n)

\* componentBody.map(...).join('\n'), from entry i on
RECURSIVE componentBloks(_, _, _, _)
componentBloks(E, items, i, st) ==
    IF i > Len(items) THEN R(<<>>, st)
    ELSE LET blok == items[i]
             sep == IF i < Len(items) THEN << "\n" >> ELSE <<>>
             id == Uuid(st.nid + 1)
         IN  IF ~IsObject(blok)
             THEN Let(componentBloks(E, items, i + 1, st),
                      LAMBDA more : R(sep \o more.v, more.st))
             ELSE Let([st EXCEPT !.nid = @ + 1,
                                 !.tasks = IF E.container # Null
                                           THEN Append(@, [id |-> id, blok |-> blok.component,
                                                           container |-> E.container])
                                           ELSE @],
                      LAMBDA st1 :
                          Let(componentBloks(E, items, i + 1, st1),
                              LAMBDA more : R(<<Placeholder(id)>> \o sep \o more.v, more.st)))

\* node.attrs?.body is the field body of the model's component node
componentResolver(E, node, st) ==
    IF ~(Has(node, "body") /\ node.body.isArray) THEN R(<<>>, st)
    ELSE componentBloks(E, node.body.items, 1, st)

-----------------------------------------------------------------------------
(* render, renderNode and the resolvers that call back into render *)

RECURSIVE render(_, _, _), renderNode(_, _, _), renderAll(_, _, _, _, _),
          Apply(_, _, _, _), textResolver(_, _, _), foldMarks(_, _, _, _)

\* array.filter(Boolean)
filterBoolean(nodes) == SelectSeq(nodes, LAMBDA n : ~Falsy(n))

\* nodes.map(render) (viaRender) or nodes.map(renderNode), from node i on: the
\* value is the sequence of the nodes' values
renderAll(E, nodes, i, viaRender, st) ==
    IF i > Len(nodes) \/ st.thrown THEN R(<<>>, st)
    ELSE Let(IF viaRender THEN render(E, nodes[i], st) ELSE renderNode(E, nodes[i], st),
             LAMBDA one :
                 Let(renderAll(E, nodes, i + 1, viaRender, one.st),
                     LAMBDA more : R(<<one.v>> \o more.v, more.st)))

\* marks.reduce((text, mark) => renderToT({ ...mark, text }), acc), from mark i on
FoldMarksReversed(E, marks, i, acc) ==
    IF i > Len(marks) \/ acc.st.thrown THEN acc
    ELSE Let(render(E, With(marks[Len(marks) + 1 - i], "text", acc.v), acc.st),
             LAMBDA next : foldMarks(E, marks, i + 1, next))

foldMarks(E, marks, i, acc) ==
    IF i > Len(marks) \/ acc.st.thrown THEN acc
    ELSE Let(render(E, With(marks[i], "text", acc.v), acc.st),
             LAMBDA next : foldMarks(E, marks, i + 1, next))

textResolver(E, node, st) ==
    IF ~Has(node, "text") THEN R(<<>>, st)
    ELSE IF Has(node, "marks")
    THEN Let(render(E, Omit(node, "marks"), st),
             LAMBDA leaf : foldMarks(E, node.marks, 1, leaf))
    ELSE IF E.keyed
    THEN R(<<escapeHtml(node.text)>>, Stamp(st, "txt"))
    ELSE R(<<escapeHtml(node.text)>>, st)

\* resolver(node, context)
Apply(E, resolver, node, st) ==
    CASE resolver.kind = "node" -> nodeResolver(E, resolver.tag, node, st)
      [] resolver.kind = "heading" -> headingResolver(E, node, st)
      [] resolver.kind = "mark" -> markResolver(E, resolver.tag, resolver.styled, node, st)
      [] resolver.kind = "link" -> linkResolver(E, node, st)
      [] resolver.kind = "text" -> textResolver(E, node, st)
      [] resolver.kind = "component" -> componentResolver(E, node, st)
      [] resolver.kind = "defaultHighlight" -> defaultHighlight(node, st)
      [] resolver.kind = "defaultLink" -> defaultLink(E, node, st)
      [] resolver.kind = "user" -> userResolver(resolver.tag, node, st)

renderNode(E, node, st) ==
    IF Falsy(node) \/ ~IsObject(node) \/ ~Has(node, "type") THEN R(<<>>, st)
    ELSE Let(MapGet(E.merged, node.type),
             LAMBDA resolver :
                 IF resolver = NoResolver THEN R(<<>>, st)
                 ELSE IF node.type = TEXT THEN Apply(E, resolver, node, st)
                 ELSE IF Has(node, "content")
                 THEN Let(renderAll(E, filterBoolean(node.content), 1, TRUE, st),
                          LAMBDA kids :
                              IF kids.st.thrown THEN R(<<>>, kids.st)
                              ELSE Let(With(node, "children", Flatten(kids.v)),
                                       LAMBDA withKids : Apply(E, resolver, withKids, kids.st)))
                 ELSE Apply(E, resolver, node, st))

\* the document branch: node.content.filter(Boolean).map(renderNode).join('')
renderDocument(E, node, st) ==
    IF ~Has(node, "content") THEN Throw(st)
    ELSE Let(renderAll(E, filterBoolean(node.content), 1, FALSE, st),
             LAMBDA kids : R(Flatten(kids.v), kids.st))

render(E, node, st) ==
    IF IsArray(node)
    THEN Let(renderAll(E, filterBoolean(node.items), 1, FALSE, st),
             LAMBDA all : [v |-> Flatten(all.v), arr |-> TRUE, st |-> all.st])
    ELSE IF Falsy(node) THEN R(<<>>, st)
    ELSE IF Has(node, "type") /\ node.type = DOCUMENT THEN renderDocument(E, node, st)
    ELSE renderNode(E, node, st)

-----------------------------------------------------------------------------
(* The inputs of the model: documents and engine options *)

RECURSIVE SeqsUpTo(_, _)
SeqsUpTo(S, n) ==
    IF n = 0 THEN {<<>>}
    ELSE LET shorter == SeqsUpTo(S, n - 1)
         IN  shorter \cup {Append(q, x) : q \in shorter, x \in S}

Texts == {"Hi", "a<b"}

BoldMark == [type |-> "bold"]
ItalicMark == [type |-> "italic"]
HighlightMark == [type |-> "highlight", attrs |-> << <<"color", "red">> >>]
GlowMark == [type |-> "glow"]

LinkMark(attrs) == [type |-> "link", attrs |-> attrs]

EmailLink == LinkMark(<< <<"href", "a@b.com">>, <<"linktype", "email">> >>)

StoryLink ==
    LinkMark(<< <<"href", "/home">>, <<"anchor", "top">>, <<"linktype", "story">>,
                <<"story", "about">> >>)

LinkMarks ==
    { EmailLink, StoryLink,
      LinkMark(<< <<"href", STORYBLOK_ASSET>>, <<"target", "_blank">>,
                  <<"linktype", "asset">> >>),
      LinkMark(<< <<"href", "">>, <<"linktype", "url">> >>),
      LinkMark(<< <<"href", "/x">>, <<"anchor", "top">>, <<"linktype", "custom">> >>) }

MarkSet == {BoldMark, ItalicMark, HighlightMark, GlowMark, StoryLink}

PlainText(text) == [type |-> TEXT, text |-> text]

MarkedText(text, marks) == [type |-> TEXT, text |-> text, marks |-> marks]

TextNodes ==
    {PlainText(t) : t \in Texts}
        \cup {MarkedText(t, ms) : t \in Texts, ms \in SeqsUpTo(MarkSet, MaxMarks)}
        \cup {MarkedText("Mail", <<m>>) : m \in LinkMarks}

Blok(name) == [component |-> name]

ComponentNode(items) == [type |-> COMPONENT, body |-> [isArray |-> TRUE, items |-> items]]

Paragraph(content) == [type |-> "paragraph", content |-> content]

\* the children a document is built from: well-formed nodes and malformed ones
ChildNodes ==
    { Paragraph(<<MarkedText("Hi", <<BoldMark>>), PlainText("a<b")>>),
      [type |-> "paragraph", attrs |-> << <<"textAlign", "center">> >>],
      PlainText("Hi"),
      [prim |-> "string"],
      [content |-> <<PlainText("Hi")>>],
      [type |-> TEXT],
      [type |-> "video", body |-> [isArray |-> FALSE]],
      [type |-> COMPONENT, body |-> [isArray |-> FALSE]],
      ComponentNode(<<Blok("teaser"), [prim |-> "null"], Blok("hero")>>),
      [type |-> DOCUMENT] }

Documents ==
    {[type |-> DOCUMENT, content |-> c] : c \in SeqsUpTo(ChildNodes, MaxChildren)}
        \cup {[type |-> DOCUMENT]}
        \cup {[isArray |-> TRUE, items |-> c] : c \in SeqsUpTo({PlainText("Hi"), [prim |-> "null"]}, 2)}

Inputs == TextNodes \cup Documents \cup ChildNodes

UserResolvers ==
    { <<>>,
      << <<"highlight", Res("user", "x-highlight", FALSE)>> >>,
      << <<"link", Res("user", "x-link", FALSE)>> >>,
      << <<"glow", Res("user", "x-glow", FALSE)>>,
         <<"link", Res("user", "x-link", FALSE)>> >> }

ExceptLists == {{}, {"highlight"}, {"link"}, {"highlight", "link"}, {"bold"}}

\* richTextResolver(options)
richTextResolver(entry, except, resolvers, keyed, assetsHost) ==
    [entry |-> entry, except |-> except, resolvers |-> resolvers,
     merged |-> mergedResolvers(resolvers), keyed |-> keyed, assetsHost |-> assetsHost]

\* richTextRender(content, { except, resolvers })
richTextRender(except, resolvers, assetsHost) ==
    LET opts == EntryResolvers(except, resolvers)
    IN  [richTextResolver("richTextRender", except, opts, FALSE, assetsHost)
            EXCEPT !.resolvers = resolvers]

Engines ==
    {richTextResolver("richTextResolver", {}, r, k, FALSE) : r \in UserResolvers, k \in BOOLEAN}
        \cup {richTextRender(x, r, FALSE) : x \in ExceptLists, r \in UserResolvers}
        \cup {richTextRender({}, <<>>, TRUE)}

NoCall == [doc |-> [prim |-> "undefined"], v |-> <<>>, arr |-> FALSE, thrown |-> FALSE,
           keys |-> <<>>]

EmptyMap == [t \in {} |-> 0]

WalkState(kc, nid) == [kc |-> kc, keys |-> <<>>, tasks |-> <<>>, nid |-> nid, thrown |-> FALSE]

\* the engine as the walk sees it: its registry, its keyedResolvers option and
\* the module-level container
Ctx(e) == [merged |-> e.merged, keyed |-> e.keyed, assetsHost |-> e.assetsHost,
           container |-> container]

-----------------------------------------------------------------------------
(* The synchronous engine: one engine, render() called on it *)

AsyncIdle ==
    /\ container = Null
    /\ asyncReplacements = <<>>
    /\ promises = <<>>
    /\ calls = <<>>
    /\ nextId = 0
    /\ created = 0

InitRender ==
    /\ AsyncIdle
    /\ engine \in Engines
    /\ keyCounters = EmptyMap
    /\ renders = 0
    /\ last = NoCall

DoRender(doc) ==
    \E r \in {render(Ctx(engine), doc, WalkState(keyCounters, nextId))} :
        /\ keyCounters' = r.st.kc
        /\ nextId' = r.st.nid
        /\ renders' = renders + 1
        /\ last' = [doc |-> doc, v |-> r.v, arr |-> r.arr, thrown |-> r.st.thrown,
                    keys |-> r.st.keys]
        /\ UNCHANGED <<container, asyncReplacements, promises, calls, created, engine>>

\* render(node) on a fresh engine
Render ==
    /\ renders = 0
    /\ \E doc \in Inputs : DoRender(doc)

NextRender == Render

SpecRender == InitRender /\ [][NextRender]_vars

-----------------------------------------------------------------------------
(* Claims about the synchronous engine *)

Rendered == renders > 0

IsTextInput(d) == Has(d, "type") /\ d.type = TEXT /\ Has(d, "text")

MarksOf(d) == IF Has(d, "marks") THEN d.marks ELSE <<>>

\* wrap_n(...wrap_1(leaf)...), each mark wrapped by the resolver reg holds for
\* its type
RECURSIVE WrappedBy(_, _, _, _)
WrappedBy(reg, E, node, n) ==
    IF n = 0
    THEN R(<<escapeHtml(node.text)>>,
           IF E.keyed THEN Stamp(WalkState(EmptyMap, 0), "txt") ELSE WalkState(EmptyMap, 0))
    ELSE LET inner == WrappedBy(reg, E, node, n - 1)
             mark == MarksOf(node)[n]
         IN  Apply(E, MapGet(reg, mark.type), With(mark, "text", inner.v), inner.st)

AllResolved(reg, marks) == \A i \in 1..Len(marks) : MapGet(reg, marks[i].type) # NoResolver

\* C5: a text node whose marks [m1..mn] all have resolvers renders as
\* wrap_mn(...wrap_m1(leaf)...), m1 innermost; with no marks it renders as the
\* bare leaf
MarkFoldOrder ==
    (Rendered /\ IsTextInput(last.doc) /\ AllResolved(engine.merged, MarksOf(last.doc)))
        => /\ ~last.thrown
           /\ last.v = WrappedBy(engine.merged, Ctx(engine), last.doc,
                                 Len(MarksOf(last.doc))).v
           /\ MarksOf(last.doc) = <<>> => last.v = <<escapeHtml(last.doc.text)>>

MarkFoldOrderWitness ==
    /\ Rendered
    /\ last.doc = MarkedText("Hi", <<BoldMark, ItalicMark>>)
    /\ last.v = <<"<em>", "<strong>", "Hi", "</strong>", "</em>">>

\* the resolvers option the entry handed to richTextResolver
OptionResolvers ==
    IF engine.entry = "richTextRender"
    THEN EntryResolvers(engine.except, engine.resolvers)
    ELSE engine.resolvers

RegistryKeys ==
    MapKeys(originalResolvers) \cup MapKeys(defaultResolvers)
        \cup UNION {MapKeys(r) : r \in UserResolvers} \cup {"video"}

\* C6: the merged registry holds the caller's resolver for every key of the
\* caller's resolvers and the built-in resolver for every other key; with no
\* overrides it is the built-in registry; through richTextRender a caller entry
\* wins over the built-in and over the entry point's default resolver
MergeCallerWins ==
    /\ \A k \in RegistryKeys :
          MapGet(engine.merged, k) =
              IF k \in MapKeys(OptionResolvers) THEN MapGet(OptionResolvers, k)
              ELSE MapGet(originalResolvers, k)
    /\ OptionResolvers = <<>> =>
          \A k \in RegistryKeys : MapGet(engine.merged, k) = MapGet(originalResolvers, k)
    /\ \A k \in MapKeys(engine.resolvers) :
          MapGet(engine.merged, k) = MapGet(engine.resolvers, k)
    /\ (Rendered /\ IsTextInput(last.doc) /\ Len(MarksOf(last.doc)) = 1
          /\ MarksOf(last.doc)[1].type \in MapKeys(engine.resolvers))
        => last.v = userResolver(MapGet(engine.resolvers, MarksOf(last.doc)[1].type).tag,
                                 With(MarksOf(last.doc)[1], "text",
                                      <<escapeHtml(last.doc.text)>>),
                                 WalkState(EmptyMap, 0)).v

MergeCallerWinsWitness ==
    /\ Rendered
    /\ engine.entry = "richTextRender"
    /\ engine.except = {}
    /\ "link" \in MapKeys(engine.resolvers)
    /\ last.doc = MarkedText("Mail", <<EmailLink>>)
    /\ last.v = <<"<x-link>", "Mail", "</x-link>">>

\* the documents of the exclusion property: a text node whose marks are all
\* of one type k, k listed in except
ExcludedCase(k) ==
    /\ Rendered
    /\ engine.entry = "richTextRender"
    /\ k \in engine.except
    /\ IsTextInput(last.doc)
    /\ MarksOf(last.doc) # <<>>
    /\ \A i \in 1..Len(MarksOf(last.doc)) : MarksOf(last.doc)[i].type = k

\* C7 as claimed: an excluded mark key renders no wrapping element, unless the
\* caller supplies a replacement, which then renders it
ExceptRendersNoWrapper ==
    \A k \in UNION ExceptLists :
        ExcludedCase(k) =>
            IF k \in MapKeys(engine.resolvers)
            THEN last.v = WrappedBy(engine.resolvers, Ctx(engine), last.doc,
                                    Len(MarksOf(last.doc))).v
            ELSE last.v = <<escapeHtml(last.doc.text)>>

\* C7 as amended: an excluded mark key not replaced by the caller is rendered
\* by the engine's built-in resolver for the key, not by the entry point's
\* default; a key the caller replaces is rendered by the caller's resolver
ExceptFallsBackToBuiltin ==
    \A k \in UNION ExceptLists :
        ExcludedCase(k) =>
            IF k \in MapKeys(engine.resolvers)
            THEN last.v = WrappedBy(engine.resolvers, Ctx(engine), last.doc,
                                    Len(MarksOf(last.doc))).v
            ELSE /\ MapGet(engine.merged, k) = MapGet(originalResolvers, k)
                 /\ last.v = WrappedBy(originalResolvers, Ctx(engine), last.doc,
                                       Len(MarksOf(last.doc))).v

ExceptFallsBackWitness ==
    /\ ExcludedCase("highlight")
    /\ engine.resolvers = <<>>
    /\ last.doc = MarkedText("Hi", <<HighlightMark>>)
    /\ last.v = <<"<mark color=\"red\">", "Hi", "</mark>">>

Malformed(node) ==
    \/ ~IsObject(node)
    \/ ~Has(node, "type") /\ ~IsArray(node)
    \/ Has(node, "type") /\ MapGet(engine.merged, node.type) = NoResolver
    \/ Has(node, "type") /\ node.type = TEXT /\ ~Has(node, "text")
    \/ Has(node, "type") /\ node.type = COMPONENT /\ ~(Has(node, "body") /\ node.body.isArray)

IsDocumentInput(d) == Has(d, "type") /\ d.type = DOCUMENT /\ Has(d, "content")

\* what the children of a document render to, one after the other, a
\* malformed child rendering as nothing
RECURSIVE SiblingsInOrder(_, _, _)
SiblingsInOrder(nodes, i, st) ==
    IF i > Len(nodes) THEN <<>>
    ELSE IF Malformed(nodes[i]) THEN SiblingsInOrder(nodes, i + 1, st)
    ELSE LET one == renderNode(Ctx(engine), nodes[i], st)
         IN  one.v \o SiblingsInOrder(nodes, i + 1, one.st)

\* C8: no input makes the walk throw; a malformed node renders as nothing and
\* its siblings are rendered in document order
WalkNeverFails ==
    Rendered =>
        /\ ~last.thrown
        /\ Malformed(last.doc) => last.v = <<>>
        /\ IsDocumentInput(last.doc) =>
              last.v = SiblingsInOrder(last.doc.content, 1, WalkState(EmptyMap, 0))

\* the four malformed shapes of C8 alone: these hold of the walk
MalformedShapesRenderEmpty ==
    (Rendered /\ ~last.thrown) =>
        /\ Malformed(last.doc) => last.v = <<>>
        /\ IsDocumentInput(last.doc) =>
              last.v = SiblingsInOrder(last.doc.content, 1, WalkState(EmptyMap, 0))

\* the destination the claim gives a link mark
ClaimedDestination(attrs) ==
    LET kind == AttrGet(attrs, "linktype")
        href == AttrGet(attrs, "href")
    IN  IF kind = "email" THEN "mailto:" \o href
        ELSE IF kind = "story" /\ Truthy(AttrGet(attrs, "anchor"))
        THEN href \o "#" \o AttrGet(attrs, "anchor")
        ELSE href

\* the attributes other than href an anchor of the model may carry
OtherAttributes ==
    {"", " target=\"_blank\"", " story=\"[object Object]\"", " key=\"a-0\"",
     " story=\"[object Object]\" key=\"a-0\"", " target=\"_blank\" key=\"a-0\"",
     " target=\"_self\" class=\"rich-text-link\"",
     " target=\"_blank\" class=\"rich-text-link\""}

AnchorTo(dest, text) ==
    { << "<a" \o pre \o (IF dest # "" THEN " href=\"" \o dest \o "\"" ELSE "") \o post \o ">",
         text, "</a>" >> : pre \in OtherAttributes, post \in OtherAttributes }

LinkCase ==
    /\ Rendered
    /\ IsTextInput(last.doc)
    /\ Len(MarksOf(last.doc)) = 1
    /\ MarksOf(last.doc)[1].type = "link"
    /\ "link" \notin MapKeys(engine.resolvers)

\* C9: a link mark renders an anchor whose destination follows the link kind
\* (email: mailto: and href; story: href and #anchor; otherwise href), the
\* destination attribute present only when the destination is not empty
LinkDestinationByKind ==
    LinkCase =>
        last.v \in AnchorTo(ClaimedDestination(MarksOf(last.doc)[1].attrs),
                            escapeHtml(last.doc.text))

\* the same, for the engine's built-in link resolver alone
BuiltinLinkDestination ==
    (LinkCase /\ MapGet(engine.merged, "link") = MapGet(originalResolvers, "link"))
        => last.v \in AnchorTo(ClaimedDestination(MarksOf(last.doc)[1].attrs),
                               escapeHtml(last.doc.text))

-----------------------------------------------------------------------------
(* Stable keys: one keyed engine, render() called on it again and again *)

KeyedEngines == {e \in Engines : e.keyed}

KeyedInputs ==
    { PlainText("Hi"),
      MarkedText("Hi", <<BoldMark>>),
      MarkedText("Hi", <<BoldMark, ItalicMark>>),
      Paragraph(<<PlainText("Hi")>>),
      [type |-> DOCUMENT, content |-> <<>>],
      [type |-> DOCUMENT, content |-> <<Paragraph(<<PlainText("Hi")>>),
                                        Paragraph(<<MarkedText("Hi", <<BoldMark>>)>>)>>],
      [type |-> DOCUMENT, content |-> <<Paragraph(<<PlainText("Hi"), PlainText("a<b")>>),
                                        [type |-> "horizontal_rule"]>>] }

InitKeys ==
    /\ AsyncIdle
    /\ engine \in KeyedEngines
    /\ keyCounters = EmptyMap
    /\ renders = 0
    /\ last = NoCall

\* render(node) on an engine that may have rendered before
RenderAgain ==
    /\ renders < MaxRenders
    /\ \E doc \in KeyedInputs : DoRender(doc)

NextKeys == RenderAgain

SpecKeys == InitKeys /\ [][NextKeys]_vars

\* how many of the first j - 1 keys of the invocation are of the tag of the j-th
EarlierOfTag(keys, j) == Cardinality({i \in 1..(j - 1) : keys[i][1] = keys[j][1]})

\* C10: within one render invocation the n-th emit of a tag (and the n-th text
\* leaf, under txt) is stamped <tag>-<n-1>: every invocation counts from zero
KeysCountFromZeroPerInvocation ==
    Rendered =>
        \A j \in 1..Len(last.keys) : last.keys[j][2] = EarlierOfTag(last.keys, j)

\* the first invocation of an engine does count from zero
FirstInvocationCountsFromZero ==
    renders = 1 =>
        \A j \in 1..Len(last.keys) : last.keys[j][2] = EarlierOfTag(last.keys, j)

-----------------------------------------------------------------------------
(* renderHTML: the asynchronous placeholder protocol *)

ErrorMarker == "<!-- Component render error -->"

\* what container.renderToString makes of a blok
RenderedBlok(blok) == "<" \o blok \o "/>"

AsyncInputs ==
    { [type |-> DOCUMENT, content |-> <<ComponentNode(<<Blok("teaser")>>)>>],
      [type |-> DOCUMENT,
       content |-> <<Paragraph(<<PlainText("Hi")>>),
                     ComponentNode(<<Blok("teaser"), [prim |-> "null"], Blok("hero")>>)>>],
      [type |-> DOCUMENT, content |-> <<Paragraph(<<PlainText("a<b")>>)>>],
      [type |-> DOCUMENT],
      [isArray |-> TRUE, items |-> <<ComponentNode(<<Blok("teaser")>>)>>] }

Init ==
    /\ container = Null
    /\ asyncReplacements = <<>>
    /\ promises = <<>>
    /\ calls = <<>>
    /\ nextId = 0
    /\ created = 0
    /\ engine = richTextRender({}, <<>>, FALSE)
    /\ keyCounters = EmptyMap
    /\ renders = 0
    /\ last = NoCall

\* asyncReplacements = []
ResetKeepsList(list) == list

ResetList(list) == <<>>

\* the promise componentResolver pushes for a task, before the render settles
Pending(task) ==
    [id |-> task.id, blok |-> task.blok, container |-> task.container,
     state |-> "pending", result |-> Undef, outcome |-> "pending"]

\* .then(result => ({ id, result })).catch(err => ({ id, result: marker })):
\* what the pushed promise settles to when the render of its blok settles
CatchMissing(promise, outcome) ==
    IF outcome = "rendered"
    THEN [promise EXCEPT !.state = "fulfilled", !.result = RenderedBlok(promise.blok)]
    ELSE [promise EXCEPT !.state = "rejected"]

ThenCatch(promise, outcome) ==
    IF outcome = "rendered"
    THEN [promise EXCEPT !.state = "fulfilled", !.result = RenderedBlok(promise.blok)]
    ELSE [promise EXCEPT !.state = "fulfilled", !.result = ErrorMarker]

Outcomes == {"rendered", "failed"}

\* new Map(results.map(r => [r.id, r.result ?? ''])).get(id) ?? ''
ReplacementFor(results, id) ==
    LET I == {i \in 1..Len(results) : results[i].id = id}
    IN  IF I = {} THEN ""
        ELSE LET r == results[CHOOSE i \in I : \A j \in I : j <= i].result
             IN  IF r = Undef THEN "" ELSE r

\* the chunks /<!--ASYNC-([\w-]+)-->/ matches: the placeholders of the UUIDs
\* handed out so far
PlaceholderIds(n) == {Uuid(k) : k \in 1..n}

IsPlaceholder(chunk, n) == \E id \in PlaceholderIds(n) : chunk = Placeholder(id)

IdOf(chunk, n) == CHOOSE id \in PlaceholderIds(n) : chunk = Placeholder(id)

\* html.replace(/<!--ASYNC-([\w-]+)-->/g, (_, id) => replacements.get(id) ?? '')
ReplaceFirstOnly(html, results, n) ==
    LET M == {i \in 1..Len(html) : IsPlaceholder(html[i], n)}
    IN  [i \in 1..Len(html) |->
            IF i \in M /\ (\A j \in M : i <= j)
            THEN ReplacementFor(results, IdOf(html[i], n)) ELSE html[i]]

ReplacePlaceholders(html, results, n) ==
    [i \in 1..Len(html) |->
        IF IsPlaceholder(html[i], n) THEN ReplacementFor(results, IdOf(html[i], n))
        ELSE html[i]]

NewCall(doc) ==
    [pc |-> "creating", doc |-> doc, html |-> <<>>, arr |-> FALSE, awaited |-> <<>>,
     registered |-> <<>>, out |-> <<>>, cause |-> ""]

\* promise ids first + 1 .. first + n
IdsFrom(first, n) == [k \in 1..n |-> first + k]

\* renderHTML from `asyncReplacements = []` to `await Promise.all(...)`: the
\* walk and the snapshot Promise.all takes of the list run without a break
SyncPart(i, call, handle) ==
    \E r \in {render([Ctx(engine) EXCEPT !.container = handle], call.doc,
                     WalkState(keyCounters, nextId))} :
        LET ids == IdsFrom(Len(promises), Len(r.st.tasks))
            list == ResetList(asyncReplacements) \o ids
        IN  /\ nextId' = r.st.nid
            /\ promises' = promises \o [k \in 1..Len(ids) |-> Pending(r.st.tasks[k])]
            /\ asyncReplacements' = list
            /\ calls' = [j \in 1..Len(calls) \cup {i} |->
                           IF j # i THEN calls[j]
                           ELSE IF r.st.thrown
                           THEN [call EXCEPT !.pc = "rejected", !.cause = "walk",
                                             !.registered = ids]
                           ELSE [call EXCEPT !.pc = "awaiting", !.html = r.v,
                                             !.arr = r.arr, !.awaited = list,
                                             !.registered = ids]]

\* a caller calls renderHTML(doc): the container exists and the call runs on to
\* its await of the tasks, or the call awaits AstroContainer.create()
Call ==
    /\ Len(calls) < MaxCalls
    /\ \E doc \in AsyncInputs :
          LET i == Len(calls) + 1
          IN  \/ /\ container # Null
                 /\ SyncPart(i, NewCall(doc), container)
                 /\ UNCHANGED <<container, created>>
              \/ /\ container = Null
                 /\ calls' = Append(calls, NewCall(doc))
                 /\ UNCHANGED <<container, created, asyncReplacements, promises, nextId>>
    /\ UNCHANGED renderVars

\* AstroContainer.create() resolves for call i: container = <the new
\* container>, and the call runs on to its await of the tasks
CreateResolved ==
    /\ \E i \in 1..Len(calls) :
          /\ calls[i].pc = "creating"
          /\ created' = created + 1
          /\ container' = created + 1
          /\ SyncPart(i, calls[i], created + 1)
    /\ UNCHANGED renderVars

\* AstroContainer.create() rejects for call i: renderHTML rejects
CreateRejected ==
    /\ \E i \in 1..Len(calls) :
          /\ calls[i].pc = "creating"
          /\ calls' = [calls EXCEPT ![i].pc = "rejected", ![i].cause = "create"]
    /\ UNCHANGED <<container, created, asyncReplacements, promises, nextId>>
    /\ UNCHANGED renderVars

\* the render of one blok settles, and with it the promise pushed for it
Settle ==
    /\ \E p \in 1..Len(promises), outcome \in Outcomes :
          /\ promises[p].state = "pending"
          /\ promises' = [promises EXCEPT
                              ![p] = [ThenCatch(promises[p], outcome) EXCEPT !.outcome = outcome]]
    /\ UNCHANGED <<container, created, asyncReplacements, calls, nextId>>
    /\ UNCHANGED renderVars

Awaited(call) == {call.awaited[k] : k \in 1..Len(call.awaited)}

\* Promise.all settles for call i: the placeholders are replaced and the call
\* returns, or a task rejected (or html is no string) and the call rejects
Resume ==
    /\ \E i \in 1..Len(calls) :
          /\ calls[i].pc = "awaiting"
          /\ \/ /\ \A p \in Awaited(calls[i]) : promises[p].state = "fulfilled"
                /\ IF calls[i].arr
                   THEN calls' = [calls EXCEPT ![i].pc = "rejected", ![i].cause = "replace"]
                   ELSE calls' = [calls EXCEPT
                            ![i].pc = "done",
                            ![i].out = ReplacePlaceholders(
                                           calls[i].html,
                                           [k \in 1..Len(calls[i].awaited) |->
                                               promises[calls[i].awaited[k]]],
                                           nextId)]
             \/ /\ \E p \in Awaited(calls[i]) : promises[p].state = "rejected"
                /\ calls' = [calls EXCEPT ![i].pc = "rejected", ![i].cause = "task"]
    /\ UNCHANGED <<container, created, asyncReplacements, promises, nextId>>
    /\ UNCHANGED renderVars

Next == Call \/ CreateResolved \/ CreateRejected \/ Settle \/ Resume

Spec == Init /\ [][Next]_vars

-----------------------------------------------------------------------------
(* Claims about renderHTML *)

Placeholders(html) == {j \in 1..Len(html) : IsPlaceholder(html[j], nextId)}

Registered(call) == {call.registered[k] : k \in 1..Len(call.registered)}

\* the promise among ps that carries the token of chunk j of html
OwnPromise(ps, html, j) == CHOOSE p \in ps : promises[p].id = IdOf(html[j], nextId)

\* C1: a completed renderHTML call returns a string with no placeholder left:
\* every placeholder of the walk's output is replaced by a rendered blok, by
\* the error marker or by the empty string, and nothing else is changed
NoPlaceholderRemains ==
    \A i \in 1..Len(calls) :
        calls[i].pc = "done" =>
            /\ Len(calls[i].out) = Len(calls[i].html)
            /\ \A j \in 1..Len(calls[i].out) :
                  /\ ~IsPlaceholder(calls[i].out[j], nextId)
                  /\ IF j \in Placeholders(calls[i].html)
                     THEN calls[i].out[j] \in
                              {RenderedBlok("teaser"), RenderedBlok("hero"), ErrorMarker, ""}
                     ELSE calls[i].out[j] = calls[i].html[j]

NoPlaceholderRemainsWitness ==
    \E i \in 1..Len(calls) :
        /\ calls[i].pc = "done"
        /\ Cardinality(Placeholders(calls[i].html)) = 2
        /\ Placeholders(calls[i].out) = {}

\* C2: however renderHTML calls interleave, a call awaits exactly the tasks its
\* own walk registered, no task is awaited by another call, and every
\* placeholder a call emitted is replaced by the result of its own task
TasksOwnedByInvocation ==
    \A i \in 1..Len(calls) :
        /\ calls[i].pc \in {"awaiting", "done"} =>
              /\ calls[i].awaited = calls[i].registered
              /\ Cardinality(Placeholders(calls[i].html)) = Len(calls[i].registered)
        /\ \A j \in 1..Len(calls) : j # i => Awaited(calls[i]) \cap Registered(calls[j]) = {}
        /\ calls[i].pc = "done" =>
              \A j \in Placeholders(calls[i].html) :
                  /\ \E p \in Registered(calls[i]) :
                        promises[p].id = IdOf(calls[i].html[j], nextId)
                  /\ calls[i].out[j] =
                        promises[OwnPromise(Registered(calls[i]), calls[i].html, j)].result

\* the second call ran from start to end while the first, with tasks of its
\* own, was still awaiting them
TasksOwnedWitness ==
    /\ Len(calls) = 2
    /\ calls[1].pc = "awaiting"
    /\ calls[1].registered # <<>>
    /\ calls[2].pc = "done"
    /\ calls[2].registered # <<>>
    /\ Placeholders(calls[2].out) = {}

\* C3: whichever component renders fail, the call does not reject: once its
\* tasks have settled it can return, a failed task's placeholder is replaced by
\* the error marker and every other placeholder by its own task's rendering
FailedTaskIsolated ==
    \A i \in 1..Len(calls) :
        /\ calls[i].cause # "task"
        /\ calls[i].pc = "awaiting" =>
              \A p \in Awaited(calls[i]) :
                  promises[p].outcome # "pending" => promises[p].state = "fulfilled"
        /\ calls[i].pc = "done" =>
              \A j \in Placeholders(calls[i].html) :
                  LET p == OwnPromise(Awaited(calls[i]), calls[i].html, j)
                  IN  calls[i].out[j] = IF promises[p].outcome = "failed" THEN ErrorMarker
                                        ELSE RenderedBlok(promises[p].blok)

FailedTaskIsolatedWitness ==
    \E i \in 1..Len(calls) :
        /\ calls[i].pc = "done"
        /\ \E p, q \in Awaited(calls[i]) :
              promises[p].outcome = "failed" /\ promises[q].outcome = "rendered"
        /\ \E j, k \in 1..Len(calls[i].out) :
              calls[i].out[j] = ErrorMarker /\ calls[i].out[k] = RenderedBlok("hero")

\* C4: the container is initialised at most once: once set, no later call
\* replaces it
ContainerInitialisedOnce == [][container # Null => container' = container]_vars

====
